---- MODULE Spec2Model ----
(***************************************************************************)
(* hack/tools/ownership_tree.py: the ownership tree of the resources of a  *)
(* namespace and the fingerprint of its ClusterExtensions.                 *)
(*                                                                         *)
(* The script is one sequential run.  Its position is pc:                  *)
(*   "collect"     the ingestion loop (lines 120-145), one record a step   *)
(*   "gather"      gather_fingerprint is about to be called (368-370)      *)
(*   "fingerprint" inside gather_fingerprint's loops (351-366)             *)
(*   "render"      the print_tree calls (372-374, 203-217)                 *)
(*   "done"        the run ended normally                                  *)
(*   "KeyError", "RecursionError"   the run was aborted by that exception  *)
(*                                                                         *)
(* Python strings are modelled as sequences of one-character strings, so   *)
(* that upper(), lower(), capitalize(), concatenation and comparison are   *)
(* computed as Python computes them.  A dict is modelled as the sequence   *)
(* of its entries in insertion order (Python dicts iterate in insertion    *)
(* order, and assigning to an existing key keeps its position).            *)
(***************************************************************************)
EXTENDS Integers, Sequences, FiniteSets, TLC

VARIABLES
    args,               \* the parsed command line (lines 12-20)
    items,              \* what the data source returns, in arrival order
    idx,                \* the next record of items the ingestion loop reads
    uid_to_resource,    \* line 65: dict uid -> entry, in insertion order
    owner_to_children,  \* line 148: owner uid -> list of child uids
    top_level,          \* line 154
    kind_groups,        \* line 167: dict kind -> list of uids
    pseudo_nodes,       \* line 174: dict kind -> pseudo uid
    top_level_kinds,    \* line 191
    pc,                 \* the position of the run
    stack,              \* the print_tree calls still to be made, next first
    out,                \* the lines printed on stdout
    visits,             \* history: the print_tree calls made, in order
    all_images,         \* line 327: dict image -> token
    image_ref_count,    \* line 328
    ce_todo,            \* the ClusterExtensions the loop of line 352 has left
    walk,               \* the uids the loop of line 354 has left
    fingerprint,        \* line 353: the document being built
    document,           \* the last document written by line 364
    state_files,        \* line 368
    run,                \* which invocation of the script this is (1 or 2)
    prev_out            \* the stdout of the previous invocation

vars == <<args, items, idx, uid_to_resource, owner_to_children, top_level,
          kind_groups, pseudo_nodes, top_level_kinds, pc, stack, out, visits,
          all_images, image_ref_count, ce_todo, walk, fingerprint, document,
          state_files, run, prev_out>>

-----------------------------------------------------------------------------
(* Bounds of the model.                                                    *)

\* The most records the data source returns in one run.
MaxItems == 3

\* The most containers one fetched summary carries.
MaxContainers == 2

\* The nesting depth of print_tree calls beyond which CPython raises
\* RecursionError (sys.getrecursionlimit(), 1000 by default), scaled down.
\* It stays above the deepest acyclic chain the bounds allow (MaxItems + 1).
RecursionLimit == 5

-----------------------------------------------------------------------------
(* Python strings.                                                         *)

\* The characters used, in code point order.
Chars ==
    << "0","1","2","3","4","5","6","7","8","9",
       "A","B","C","D","E","F","G","H","I","J","K","L","M",
       "N","O","P","Q","R","S","T","U","V","W","X","Y","Z",
       "_",
       "a","b","c","d","e","f","g","h","i","j","k","l","m",
       "n","o","p","q","r","s","t","u","v","w","x","y","z" >>

Ord(c) == CHOOSE i \in 1..Len(Chars) : Chars[i] = c

IsUpperChar(c) == \E i \in 11..36 : Chars[i] = c

IsLowerChar(c) == \E i \in 38..63 : Chars[i] = c

UpperChar(c) == IF IsLowerChar(c) THEN Chars[Ord(c) - 27] ELSE c

LowerChar(c) == IF IsUpperChar(c) THEN Chars[Ord(c) + 27] ELSE c

\* str.upper()
Upper(s) == [i \in 1..Len(s) |-> UpperChar(s[i])]

\* str.lower()
Lower(s) == [i \in 1..Len(s) |-> LowerChar(s[i])]

\* str.capitalize(): the first character upper-cased, the rest lower-cased
Capitalize(s) == [i \in 1..Len(s) |-> IF i = 1 THEN UpperChar(s[i]) ELSE LowerChar(s[i])]

\* s < t on Python strings: lexicographic by code point
StrLess(s, t) ==
    LET m == IF Len(s) < Len(t) THEN Len(s) ELSE Len(t)
        d == {i \in 1..m : s[i] # t[i]}
    IN  IF d = {} THEN Len(s) < Len(t)
        ELSE LET i == CHOOSE j \in d : \A k \in d : j <= k
             IN  Ord(s[i]) < Ord(t[i])

\* a < b on Python tuples (str, str)
KeyLess(a, b) == StrLess(a[1], b[1]) \/ (a[1] = b[1] /\ StrLess(a[2], b[2]))

-----------------------------------------------------------------------------
(* The strings of the script.                                              *)

Event == <<"E","v","e","n","t">>
Pod == <<"P","o","d">>
Deployment == <<"D","e","p","l","o","y","m","e","n","t">>
ClusterExtension == <<"C","l","u","s","t","e","r","E","x","t","e","n","s","i","o","n">>

\* line 22: the namespace argument
NAMESPACE == <<"n","s">>

\* The tree glyphs of lines 205, 211, 215 (box-drawing characters in the
\* source, written here in ASCII).
BranchLast == "+-- "
BranchMid == "|-- "
IndentLast == "    "
IndentMid == "|   "

\* A field the record does not have: reading it raises KeyError.
Missing == <<"#missing">>

-----------------------------------------------------------------------------
(* Command line, lines 24-33.                                              *)

GATHER == args.gather_cluster_extension_state \/ args.prompt

SHOW_EVENTS == IF GATHER THEN TRUE ELSE ~args.no_events

WITH_EVENT_INFO == IF GATHER THEN TRUE ELSE args.with_event_info

-----------------------------------------------------------------------------
(* kubectl api-resources, lines 45-63: (kind, plural name) rows.  The      *)
(* first row of a kind sets its plural.                                    *)

resource_info ==
    << [kind |-> Pod, name |-> <<"p","o","d","s">>],
       [kind |-> Event, name |-> <<"e","v","e","n","t","s">>],
       [kind |-> ClusterExtension,
        name |-> <<"c","l","u","s","t","e","r","e","x","t","e","n","s","i","o","n","s">>],
       [kind |-> Event, name |-> <<"e","v","e","n","t","s">>] >>

\* kind_to_plural.get(kind, kind.lower() + "s"), line 178
KindToPlural(kind) ==
    LET rows == {i \in 1..Len(resource_info) : resource_info[i].kind = kind}
    IN  IF rows = {} THEN Lower(kind) \o <<"s">>
        ELSE resource_info[CHOOSE i \in rows : \A j \in rows : i <= j].name

-----------------------------------------------------------------------------
(* Dicts in insertion order.                                               *)

\* the keys of uid_to_resource
Uids(cat) == {cat[i].uid : i \in 1..Len(cat)}

\* uid_to_resource[uid]
Res(cat, uid) == cat[CHOOSE i \in 1..Len(cat) : cat[i].uid = uid]

\* uid_to_resource[entry.uid] = entry
PutRes(cat, entry) ==
    IF entry.uid \in Uids(cat)
    THEN [i \in 1..Len(cat) |-> IF cat[i].uid = entry.uid THEN entry ELSE cat[i]]
    ELSE Append(cat, entry)

\* owner_to_children[owner].append(child), on a defaultdict(list)
AdjAppend(adj, owner, child) ==
    IF owner \in DOMAIN adj
    THEN [adj EXCEPT ![owner] = Append(@, child)]
    ELSE adj @@ (owner :> <<child>>)

\* owner_to_children.get(uid, [])
Children(adj, uid) == IF uid \in DOMAIN adj THEN adj[uid] ELSE <<>>

\* kind_groups[kind].append(uid), on a defaultdict(list)
GroupAppend(groups, kind, uid) ==
    IF \E i \in 1..Len(groups) : groups[i].kind = kind
    THEN [i \in 1..Len(groups) |->
            IF groups[i].kind = kind
            THEN [groups[i] EXCEPT !.uids = Append(@, uid)]
            ELSE groups[i]]
    ELSE Append(groups, [kind |-> kind, uids |-> <<uid>>])

\* pseudo_nodes[kind] = pseudo_uid
PutPseudo(nodes, kind, uid) ==
    IF \E i \in 1..Len(nodes) : nodes[i].kind = kind
    THEN [i \in 1..Len(nodes) |->
            IF nodes[i].kind = kind THEN [kind |-> kind, uid |-> uid] ELSE nodes[i]]
    ELSE Append(nodes, [kind |-> kind, uid |-> uid])

-----------------------------------------------------------------------------
(* Ingestion, lines 120-145.                                               *)

\* the comparison with the plural instead of the kind
ExcludedByPlural(kind) == kind = <<"E","v","e","n","t","s">> /\ ~SHOW_EVENTS

\* lines 121-122 and 130-131: the resource type or the record is an Event
\* and events are not shown
Excluded(kind) == kind = Event /\ ~SHOW_EVENTS

\* lines 133-142
ResEntry(item) ==
    LET base == [kind |-> item.kind, name |-> item.name, namespace |-> NAMESPACE,
                 uid |-> item.uid, owners |-> item.owners]
    IN  IF item.kind = Event /\ WITH_EVENT_INFO
        THEN base @@ [message |-> item.message]
        ELSE base

-----------------------------------------------------------------------------
(* Graph construction, lines 147-197.                                      *)

\* lines 148-151
RECURSIVE AdjFrom(_, _, _, _)
AdjFrom(cat, i, j, adj) ==
    IF i > Len(cat) THEN adj
    ELSE IF j > Len(cat[i].owners) THEN AdjFrom(cat, i + 1, 1, adj)
    ELSE AdjFrom(cat, i, j + 1, AdjAppend(adj, cat[i].owners[j], cat[i].uid))

BuildAdjacency(cat) == AdjFrom(cat, 1, 1, <<>>)

\* all_known reset by a known owner: top-level only when no owner is known
IsTopLevelNoneKnown(res, cat) ==
    \/ Len(res.owners) = 0
    \/ \A j \in 1..Len(res.owners) : res.owners[j] \notin Uids(cat)

\* lines 156-165: no owners, or an owner that is not in uid_to_resource
IsTopLevel(res, cat) ==
    \/ Len(res.owners) = 0
    \/ \E j \in 1..Len(res.owners) : res.owners[j] \notin Uids(cat)

\* lines 154-165
RECURSIVE TopLevelFrom(_, _, _)
TopLevelFrom(cat, i, acc) ==
    IF i > Len(cat) THEN acc
    ELSE TopLevelFrom(cat, i + 1,
                      IF IsTopLevel(cat[i], cat) THEN Append(acc, cat[i].uid) ELSE acc)

TopLevel(cat) == TopLevelFrom(cat, 1, <<>>)

\* lines 167-172
RECURSIVE KindGroupsFrom(_, _, _, _)
KindGroupsFrom(cat, tops, i, groups) ==
    IF i > Len(tops) THEN groups
    ELSE LET r == Res(cat, tops[i])
         IN  KindGroupsFrom(cat, tops, i + 1,
                            IF Excluded(r.kind) THEN groups
                            ELSE GroupAppend(groups, r.kind, tops[i]))

KindGroups(cat, tops) == KindGroupsFrom(cat, tops, 1, <<>>)

\* line 179: f"PSEUDO_{kind.upper()}_NODE"
PseudoUid(kind) ==
    <<"P","S","E","U","D","O","_">> \o Upper(kind) \o <<"_","N","O","D","E">>

\* lines 181-187
PseudoEntry(kind) ==
    [kind |-> Capitalize(KindToPlural(kind)), name |-> <<>>, namespace |-> NAMESPACE,
     uid |-> PseudoUid(kind), owners |-> <<>>]

\* lines 188-189
RECURSIVE AdjAppendAll(_, _, _, _)
AdjAppendAll(adj, owner, uids, i) ==
    IF i > Len(uids) THEN adj
    ELSE AdjAppendAll(AdjAppend(adj, owner, uids[i]), owner, uids, i + 1)

\* lines 174-189: the state <<pseudo_nodes, uid_to_resource, owner_to_children>>
\* after the loop over kind_groups
RECURSIVE PseudoFrom(_, _, _)
PseudoFrom(groups, i, st) ==
    IF i > Len(groups) THEN st
    ELSE LET kind == groups[i].kind
         IN  IF Excluded(kind) THEN PseudoFrom(groups, i + 1, st)
             ELSE PseudoFrom(groups, i + 1,
                    [nodes |-> PutPseudo(st.nodes, kind, PseudoUid(kind)),
                     cat   |-> PutRes(st.cat, PseudoEntry(kind)),
                     adj   |-> AdjAppendAll(st.adj, PseudoUid(kind), groups[i].uids, 1)])

\* the key without .lower()
resource_sort_key_cased(cat, uid) ==
    LET r == Res(cat, uid) IN <<r.kind, r.name>>

\* lines 193-195 and 199-201: (kind lowercased, name lowercased)
resource_sort_key(cat, uid) ==
    LET r == Res(cat, uid) IN <<Lower(r.kind), Lower(r.name)>>

\* list.sort(key=...): stable, ascending; x is put after the elements that
\* are not greater than it
RECURSIVE InsertSorted(_, _, _)
InsertSorted(cat, sorted, x) ==
    IF sorted = <<>> THEN <<x>>
    ELSE LET last == sorted[Len(sorted)]
         IN  IF KeyLess(resource_sort_key(cat, x), resource_sort_key(cat, last))
             THEN Append(InsertSorted(cat, SubSeq(sorted, 1, Len(sorted) - 1), x), last)
             ELSE Append(sorted, x)

RECURSIVE SortFrom(_, _, _, _)
SortFrom(cat, uids, i, sorted) ==
    IF i > Len(uids) THEN sorted
    ELSE SortFrom(cat, uids, i + 1, InsertSorted(cat, sorted, uids[i]))

SortByKey(cat, uids) == SortFrom(cat, uids, 1, <<>>)

-----------------------------------------------------------------------------
(* Rendering, lines 203-217 and 372-374.                                   *)

\* a for loop that stops after its first call
CallsFirstOnly(uids, prefix) ==
    [i \in 1..(IF Len(uids) > 0 THEN 1 ELSE 0) |->
        [uid |-> uids[i], prefix |-> prefix, is_last |-> (i = Len(uids))]]

\* the calls print_tree(uid, prefix=prefix, is_last=(i == len(uids)-1)) of a
\* for loop over uids, in order
Calls(uids, prefix) ==
    [i \in 1..Len(uids) |->
        [uid |-> uids[i], prefix |-> prefix, is_last |-> (i = Len(uids))]]

\* lines 205-209: the line of a node
NodeLine(r, prefix, is_last) ==
    prefix \o <<IF is_last THEN BranchLast ELSE BranchMid>>
           \o (IF r.name # <<>> THEN r.kind \o <<"/">> \o r.name ELSE r.kind)

\* lines 210-212: the message line of an Event
MessageLines(r, prefix, is_last) ==
    IF WITH_EVENT_INFO /\ r.kind = Event /\ "message" \in DOMAIN r
    THEN << prefix \o <<IF is_last THEN IndentLast ELSE IndentMid>>
                   \o <<BranchLast, "message: ">> \o r.message >>
    ELSE <<>>

\* lines 372-374: the calls of the top-level loop
TopCalls == IF GATHER /\ args.no_tree THEN <<>> ELSE Calls(top_level_kinds, <<>>)

-----------------------------------------------------------------------------
(* Fingerprint, lines 220-277 and 322-366.                                 *)

\* the image strings the cluster's containers may run
Images == {"registry/x", "registry/y"}

\* f"image_ref_{image_ref_count}", line 343
ImageRef(n) == <<"image_ref_", n>>

\* the reserved key of line 360
ImageMapKey == <<"_image_map">>

\* line 356: f"{r['kind']}/{r['name']}"
FingerprintKey(r) == r.kind \o <<"/">> \o r.name

\* lines 229-233: kubectl printed nothing, or failed
NoSummary == [found |-> FALSE]

\* the sequences of at most MaxContainers containers, none excluded
ContainerLists ==
    UNION { [1..n -> [name : {"c"}, image : Images]] : n \in 1..MaxContainers }

\* extract_resource_summary(kind, name, namespace), lines 220-277: what the
\* kubectl call of line 228 may answer for the resource r at the moment it is
\* made.  "kubectl get <kind>/" with an empty name is a usage error (line
\* 232); only a Pod or a Deployment carries containers (line 253), and the
\* key is left out when there are none (line 263).  Conditions, labels and
\* annotations are not modelled.
Summaries(r) ==
    IF r.name = <<>> THEN {NoSummary}
    ELSE {NoSummary, [found |-> TRUE, kind |-> r.kind, name |-> r.name]}
         \cup (IF r.kind \in {Pod, Deployment}
               THEN {[found |-> TRUE, kind |-> r.kind, name |-> r.name, containers |-> cs]
                        : cs \in ContainerLists}
               ELSE {})

\* all_images[img], on the dict modelled as a sequence of (image, token)
TokenOf(images, img) ==
    images[CHOOSE i \in 1..Len(images) : images[i].image = img].token

HasImage(images, img) == \E i \in 1..Len(images) : images[i].image = img

\* lines 339-347: the loop over the containers of a summary; the state is
\* <<all_images, image_ref_count, new_containers>>
RECURSIVE ContainersFrom(_, _, _)
ContainersFrom(cs, i, st) ==
    IF i > Len(cs) THEN st
    ELSE LET img == cs[i].image
             minted == ~HasImage(st.images, img)
             count == IF minted THEN st.count + 1 ELSE st.count
             images == IF minted
                       THEN Append(st.images, [image |-> img, token |-> ImageRef(count)])
                       ELSE st.images
         IN  ContainersFrom(cs, i + 1,
                [images |-> images, count |-> count,
                 containers |-> Append(st.containers,
                                       [name |-> cs[i].name,
                                        imageRef |-> TokenOf(images, img)])])

\* lines 330-349: process_resource, given what extract_resource_summary
\* returned; the state is <<all_images, image_ref_count>> and the summary
ProcessSummary(summary, images, count) ==
    IF "containers" \in DOMAIN summary
    THEN LET st == ContainersFrom(summary.containers, 1,
                                  [images |-> images, count |-> count, containers |-> <<>>])
         IN  [images |-> st.images, count |-> st.count,
              summary |-> [summary EXCEPT !.containers = st.containers]]
    ELSE [images |-> images, count |-> count, summary |-> summary]

\* fingerprint[key] = value, on the dict modelled as a sequence
PutKey(fp, key, value) ==
    IF \E i \in 1..Len(fp) : fp[i].key = key
    THEN [i \in 1..Len(fp) |->
            IF fp[i].key = key THEN [key |-> key, value |-> value] ELSE fp[i]]
    ELSE Append(fp, [key |-> key, value |-> value])

\* line 360: {v: k for k, v in all_images.items()}
ImageMap(images) ==
    [i \in 1..Len(images) |-> [token |-> images[i].token, image |-> images[i].image]]

\* line 323: the ClusterExtensions of the namespace, in catalog order
RECURSIVE CeUidsFrom(_, _, _)
CeUidsFrom(cat, i, acc) ==
    IF i > Len(cat) THEN acc
    ELSE CeUidsFrom(cat, i + 1,
                    IF cat[i].kind = ClusterExtension /\ cat[i].namespace = NAMESPACE
                    THEN Append(acc, cat[i].uid) ELSE acc)

CeUids(cat) == CeUidsFrom(cat, 1, <<>>)

\* line 354: for uid in uid_to_resource
AllUids(cat) == [i \in 1..Len(cat) |-> cat[i].uid]

-----------------------------------------------------------------------------
(* The run.                                                                *)

NoArgs == [no_events |-> FALSE, with_event_info |-> FALSE,
           gather_cluster_extension_state |-> FALSE, no_tree |-> FALSE,
           prompt |-> FALSE]

\* The state of a fresh process that was started with arguments a against a
\* data source that returns the records its
Start(a, its) ==
    /\ args = a
    /\ items = its
    /\ idx = 1
    /\ uid_to_resource = <<>>
    /\ owner_to_children = <<>>
    /\ top_level = <<>>
    /\ kind_groups = <<>>
    /\ pseudo_nodes = <<>>
    /\ top_level_kinds = <<>>
    /\ pc = "collect"
    /\ stack = <<>>
    /\ out = <<>>
    /\ visits = <<>>
    /\ all_images = <<>>
    /\ image_ref_count = 0
    /\ ce_todo = <<>>
    /\ walk = <<>>
    /\ fingerprint = <<>>
    /\ document = <<>>
    /\ state_files = <<>>

\* line 120: the loop over the fetched records has a record left
Collecting == pc = "collect" /\ idx <= Len(items)

\* the loop of line 120 is over
Collected == pc = "collect" /\ idx > Len(items)

\* a call of print_tree is due (lines 217, 374)
Printing == pc = "render" /\ stack # <<>>

\* the loop of line 373 is over
Printed == pc = "render" /\ stack = <<>>

\* lines 120-145, one record of the data source
Collect ==
    /\ Collecting
    /\ LET item == items[idx]
       IN  IF Excluded(item.rtype)
           THEN /\ idx' = idx + 1
                /\ UNCHANGED <<uid_to_resource, pc>>
           ELSE IF item.uid = Missing \/ item.kind = Missing
           THEN /\ pc' = "KeyError"
                /\ UNCHANGED <<idx, uid_to_resource>>
           ELSE IF Excluded(item.kind)
           THEN /\ idx' = idx + 1
                /\ UNCHANGED <<uid_to_resource, pc>>
           ELSE /\ uid_to_resource' = PutRes(uid_to_resource, ResEntry(item))
                /\ idx' = idx + 1
                /\ UNCHANGED pc
    /\ UNCHANGED <<args, items, owner_to_children, top_level, kind_groups, pseudo_nodes,
                   top_level_kinds, stack, out, visits, all_images, image_ref_count,
                   ce_todo, walk, fingerprint, document, state_files, run, prev_out>>

\* lines 147-197, and the entry into what follows: gather_fingerprint when
\* asked for (368-370), else the top-level loop (372-374)
BuildGraph ==
    /\ Collected
    /\ LET tops   == TopLevel(uid_to_resource)
           groups == KindGroups(uid_to_resource, tops)
           st     == PseudoFrom(groups, 1,
                                [nodes |-> <<>>, cat |-> uid_to_resource,
                                 adj |-> BuildAdjacency(uid_to_resource)])
           kinds  == SortByKey(st.cat, [i \in 1..Len(st.nodes) |-> st.nodes[i].uid])
       IN  /\ top_level' = tops
           /\ kind_groups' = groups
           /\ pseudo_nodes' = st.nodes
           /\ uid_to_resource' = st.cat
           /\ owner_to_children' = st.adj
           /\ top_level_kinds' = kinds
           /\ IF GATHER
              THEN pc' = "gather" /\ stack' = <<>>
              ELSE pc' = "render" /\ stack' = Calls(kinds, <<>>)
    /\ UNCHANGED <<args, items, idx, out, visits, all_images, image_ref_count,
                   ce_todo, walk, fingerprint, document, state_files, run, prev_out>>

\* lines 203-217: one call of print_tree, the next in depth-first order
PrintTree ==
    /\ Printing
    /\ LET call == Head(stack)
           r == Res(uid_to_resource, call.uid)
           children == SortByKey(uid_to_resource, Children(owner_to_children, call.uid))
           child_prefix == Append(call.prefix, IF call.is_last THEN IndentLast ELSE IndentMid)
       IN  IF Len(call.prefix) + 1 > RecursionLimit
           THEN /\ pc' = "RecursionError"
                /\ UNCHANGED <<stack, out, visits, owner_to_children>>
           ELSE /\ out' = out \o <<NodeLine(r, call.prefix, call.is_last)>>
                               \o MessageLines(r, call.prefix, call.is_last)
                /\ visits' = Append(visits, [uid |-> call.uid, depth |-> Len(call.prefix) + 1,
                                             is_last |-> call.is_last])
                /\ owner_to_children' =
                      IF call.uid \in DOMAIN owner_to_children
                      THEN [owner_to_children EXCEPT ![call.uid] = children]
                      ELSE owner_to_children
                /\ stack' = Calls(children, child_prefix) \o Tail(stack)
                /\ UNCHANGED pc
    /\ UNCHANGED <<args, items, idx, uid_to_resource, top_level, kind_groups, pseudo_nodes,
                   top_level_kinds, all_images, image_ref_count, ce_todo, walk,
                   fingerprint, document, state_files, run, prev_out>>

\* lines 368-370 and 322-328: gather_fingerprint is called; without a
\* ClusterExtension it returns [] and the run goes on to the tree
BeginGather ==
    /\ pc = "gather"
    /\ LET ce_uids == CeUids(uid_to_resource)
       IN  IF ce_uids = <<>>
           THEN /\ pc' = "render"
                /\ stack' = TopCalls
                /\ UNCHANGED <<ce_todo, walk>>
           ELSE /\ pc' = "fingerprint"
                /\ ce_todo' = ce_uids
                /\ walk' = AllUids(uid_to_resource)
                /\ UNCHANGED stack
    /\ all_images' = <<>>
    /\ image_ref_count' = 0
    /\ fingerprint' = <<>>
    /\ state_files' = <<>>
    /\ UNCHANGED <<args, items, idx, uid_to_resource, owner_to_children, top_level,
                   kind_groups, pseudo_nodes, top_level_kinds, out, visits, document,
                   run, prev_out>>

\* lines 354-358: one resource of the walk over the catalog
ProcessResource ==
    /\ pc = "fingerprint"
    /\ walk # <<>>
    /\ LET r == Res(uid_to_resource, Head(walk))
       IN  \E summary \in Summaries(r) :
              LET st == ProcessSummary(summary, all_images, image_ref_count)
              IN  /\ all_images' = st.images
                  /\ image_ref_count' = st.count
                  /\ fingerprint' = PutKey(fingerprint, FingerprintKey(r), st.summary)
    /\ walk' = Tail(walk)
    /\ UNCHANGED <<args, items, idx, uid_to_resource, owner_to_children, top_level,
                   kind_groups, pseudo_nodes, top_level_kinds, pc, stack, out, visits,
                   ce_todo, document, state_files, run, prev_out>>

\* lines 359-366: the document of one ClusterExtension is written; then the
\* next ClusterExtension, or the return to line 372
WriteFingerprint ==
    /\ pc = "fingerprint"
    /\ walk = <<>>
    /\ document' = IF all_images # <<>>
                   THEN PutKey(fingerprint, ImageMapKey, ImageMap(all_images))
                   ELSE fingerprint
    /\ state_files' = Append(state_files,
                             Res(uid_to_resource, Head(ce_todo)).name \o <<"-state.json">>)
    /\ ce_todo' = Tail(ce_todo)
    /\ IF Tail(ce_todo) # <<>>
       THEN /\ fingerprint' = <<>>
            /\ walk' = AllUids(uid_to_resource)
            /\ UNCHANGED <<pc, stack>>
       ELSE /\ pc' = "render"
            /\ stack' = TopCalls
            /\ UNCHANGED <<fingerprint, walk>>
    /\ UNCHANGED <<args, items, idx, uid_to_resource, owner_to_children, top_level,
                   kind_groups, pseudo_nodes, top_level_kinds, out, visits, all_images,
                   image_ref_count, run, prev_out>>

\* lines 376-392: the top-level loop is over and the run ends; with --prompt
\* and no state file it ends by sys.exit(1) (line 386)
Finish ==
    /\ Printed
    /\ pc' = IF args.prompt /\ state_files = <<>> THEN "exit" ELSE "done"
    /\ UNCHANGED <<args, items, idx, uid_to_resource, owner_to_children, top_level,
                   kind_groups, pseudo_nodes, top_level_kinds, stack, out, visits,
                   all_images, image_ref_count, ce_todo, walk, fingerprint, document,
                   state_files, run, prev_out>>

\* the orders in which a data source may return the records its
Orders(its) ==
    { [i \in 1..Len(its) |-> its[p[i]]] : p \in Permutations(1..Len(its)) }

\* The script is run a second time, with the same arguments, against the same
\* records, which the data source may return in another order.
Rerun ==
    /\ pc = "done"
    /\ run = 1
    /\ run' = 2
    /\ prev_out' = out
    /\ items' \in Orders(items)
    /\ idx' = 1
    /\ uid_to_resource' = <<>>
    /\ owner_to_children' = <<>>
    /\ top_level' = <<>>
    /\ kind_groups' = <<>>
    /\ pseudo_nodes' = <<>>
    /\ top_level_kinds' = <<>>
    /\ pc' = "collect"
    /\ stack' = <<>>
    /\ out' = <<>>
    /\ visits' = <<>>
    /\ all_images' = <<>>
    /\ image_ref_count' = 0
    /\ ce_todo' = <<>>
    /\ walk' = <<>>
    /\ fingerprint' = <<>>
    /\ document' = <<>>
    /\ state_files' = <<>>
    /\ UNCHANGED args

\* the run without --gather-cluster-extension-state and --prompt
NextTree == Collect \/ BuildGraph \/ PrintTree \/ Finish

\* two runs of it
NextRerun == Collect \/ BuildGraph \/ PrintTree \/ Finish \/ Rerun

\* the run with every path
Next ==
    \/ Collect
    \/ BuildGraph
    \/ BeginGather
    \/ ProcessResource
    \/ WriteFingerprint
    \/ PrintTree
    \/ Finish

-----------------------------------------------------------------------------
(* The records a data source may return, and the runs checked.             *)

U1 == <<"u","1">>
U2 == <<"u","2">>
U3 == <<"u","3">>
U4 == <<"u","4">>
U5 == <<"u","5">>

\* the uids of the records, by arrival (a uid is opaque and names one object)
UidPool == <<U1, U2, U3, U4, U5>>

\* the uid of an object that no run observes
U9 == <<"u","9">>

NameA == <<"a">>
NameB == <<"B">>

\* a kind that differs from Pod in letter case only
POD == <<"P","O","D">>

\* a record of kind k, named n, with owner references to the uids os; every
\* Event carries a message
Shape(k, n, os) ==
    [uid |-> <<>>, rtype |-> k, kind |-> k, name |-> n, owners |-> os,
     message |-> <<"m">>]

\* the same record without its metadata.uid, and without its kind
NoUid(shape) == [shape EXCEPT !.uid = Missing]

NoKind(shape) == [shape EXCEPT !.kind = Missing]

\* the sequences of at most MaxItems records drawn from shapes, the i-th
\* record carrying the i-th uid of the pool
Catalogs(shapes) ==
    UNION { { [i \in 1..n |-> [f[i] EXCEPT !.uid = IF @ = Missing THEN Missing
                                                               ELSE UidPool[i]]]
                : f \in [1..n -> shapes] }
            : n \in 0..MaxItems }

\* a first run, started with arguments of argset on a catalog of shapes
InitWith(argset, shapes) ==
    /\ run = 1
    /\ prev_out = <<>>
    /\ \E a \in argset, its \in Catalogs(shapes) : Start(a, its)

\* Root identification: every mix of present, absent and repeated owners.
RootShapes ==
    { Shape(Pod, NameA, os) :
        os \in {<<>>, <<U1>>, <<U2>>, <<U3>>, <<U9>>, <<U1, U1>>, <<U1, U2>>,
                <<U1, U9>>, <<U9, U1>>, <<U9, U9>>} }

InitRoots == InitWith({NoArgs}, RootShapes)

SpecRoots == InitRoots /\ [][NextTree]_vars

\* Grouping: kinds that differ in case, owners named after a group node.
GroupShapes ==
    { Shape(k, n, os) : k \in {Pod, POD, Deployment}, n \in {NameA},
                        os \in {<<>>, <<U1>>, <<U1, U9>>, <<PseudoUid(Pod)>>} }

InitGroups == InitWith({NoArgs}, GroupShapes)

SpecGroups == InitGroups /\ [][NextTree]_vars

\* Ordering: kinds and names whose order depends on the letter case.
TreeShapes ==
    { Shape(k, n, os) : k \in {Pod, Deployment}, n \in {NameA, NameB},
                        os \in {<<>>, <<U1>>, <<U2>>} }

InitTree == InitWith({NoArgs}, TreeShapes)

SpecTree == InitTree /\ [][NextTree]_vars

\* Events, shown or not, with or without their message.
EventShapes ==
    { Shape(k, NameA, os) : k \in {Pod, Event},
                            os \in {<<>>, <<U1>>, <<U2>>, <<U1, U2>>} }

EventArgs ==
    { [NoArgs EXCEPT !.no_events = ne, !.with_event_info = wi] : ne, wi \in BOOLEAN }

InitEvents == InitWith(EventArgs, EventShapes)

SpecEvents == InitEvents /\ [][NextTree]_vars

\* Ownership cycles, reachable from a root or not.  print_tree runs to its
\* end or to an exception: the interpreter never stops a run half way.
CycleShapes ==
    { Shape(Pod, n, os) : n \in {NameA, NameB},
                          os \in {<<>>, <<U1>>, <<U2>>, <<U3>>, <<U1, U9>>, <<U2, U9>>} }

InitCycles == InitWith({NoArgs}, CycleShapes)

SpecCycles == InitCycles /\ [][NextTree]_vars

\* Records without a uid or without a kind.
IngestShapes ==
    LET good == { Shape(k, NameA, os) : k \in {Pod, Deployment}, os \in {<<>>, <<U1>>} }
    IN  good \cup { NoUid(sh) : sh \in good } \cup { NoKind(sh) : sh \in good }

InitIngest == InitWith({NoArgs}, IngestShapes)

SpecIngest == InitIngest /\ [][NextTree]_vars

\* Two runs on the same records.
RerunShapes ==
    { Shape(Pod, n, os) : n \in {NameA, NameB}, os \in {<<>>, <<U1>>} }

InitRerun == InitWith({NoArgs}, RerunShapes)

SpecRerun == InitRerun /\ [][NextRerun]_vars

\* The fingerprint: ClusterExtensions and Pods, each name used once a kind
\* (a namespace holds one object of a kind and name).
GatherArgs ==
    { [NoArgs EXCEPT !.gather_cluster_extension_state = TRUE],
      [NoArgs EXCEPT !.gather_cluster_extension_state = TRUE, !.no_tree = TRUE],
      [NoArgs EXCEPT !.prompt = TRUE] }

GatherShapes ==
    { Shape(k, n, <<>>) : k \in {ClusterExtension, Pod}, n \in {NameA, NameB} }

DistinctObjects(its) ==
    \A i, j \in 1..Len(its) :
        (its[i].kind = its[j].kind /\ its[i].name = its[j].name) => i = j

Init ==
    /\ run = 1
    /\ prev_out = <<>>
    /\ \E a \in GatherArgs, its \in Catalogs(GatherShapes) :
          DistinctObjects(its) /\ Start(a, its)

Spec == Init /\ [][Next]_vars

-----------------------------------------------------------------------------
(* What the properties speak of.                                           *)

Range(seq) == {seq[i] : i \in 1..Len(seq)}

\* how often x occurs in seq
Count(seq, x) == Cardinality({i \in 1..Len(seq) : seq[i] = x})

\* the uids of the synthetic group nodes
PseudoUids == {pseudo_nodes[i].uid : i \in 1..Len(pseudo_nodes)}

\* the uids of the resources of the catalog (the group nodes excluded)
ResourceUids == Uids(uid_to_resource) \ PseudoUids

\* graph construction is over
Built == pc \in {"gather", "fingerprint", "render", "done", "exit", "RecursionError"}

\* the uids the adjacency index lists below u
Succ(u) == IF u \in DOMAIN owner_to_children THEN Range(owner_to_children[u]) ELSE {}

\* the uids print_tree can get to from the uids of S (S included)
RECURSIVE ReachFrom(_)
ReachFrom(S) ==
    LET T == S \cup UNION {Succ(u) : u \in S}
    IN  IF T = S THEN S ELSE ReachFrom(T)

\* what the top-level loop can get to
ReachableFromTop == ReachFrom(Range(top_level_kinds))

\* u is on an ownership cycle
OnCycle(u) == u \in ReachFrom(Succ(u))

\* an ownership cycle can be got to from a root
CycleReachable == \E u \in ReachableFromTop : OnCycle(u)

\* the sort key of the i-th visited node, from the catalog
VisitKey(i) ==
    LET r == Res(uid_to_resource, visits[i].uid) IN <<Lower(r.kind), Lower(r.name)>>

\* i and j are visits of two siblings, j the one after i
NextSibling(i, j) ==
    /\ i < j
    /\ visits[i].depth = visits[j].depth
    /\ \A k \in (i + 1)..(j - 1) : visits[k].depth > visits[i].depth

\* the visits of the children of the i-th visited node, in order
ChildVisits(i) ==
    LET stop == {k \in (i + 1)..Len(visits) : visits[k].depth <= visits[i].depth}
        end == IF stop = {} THEN Len(visits)
               ELSE (CHOOSE k \in stop : \A l \in stop : k <= l) - 1
        ks == {k \in (i + 1)..end : visits[k].depth = visits[i].depth + 1}
    IN  [n \in 1..Cardinality(ks) |->
            visits[CHOOSE k \in ks : Cardinality({l \in ks : l < k}) = n - 1].uid]

\* the top-level visits, in order
TopVisits ==
    LET ks == {k \in 1..Len(visits) : visits[k].depth = 1}
    IN  [n \in 1..Cardinality(ks) |->
            visits[CHOOSE k \in ks : Cardinality({l \in ks : l < k}) = n - 1].uid]

\* seq and other hold the same elements, each as often
SameBag(seq, other) ==
    /\ Len(seq) = Len(other)
    /\ \A x \in Range(seq) \cup Range(other) : Count(seq, x) = Count(other, x)

\* the visit of the ancestor at depth d of the i-th visited node
Ancestor(i, d) ==
    LET ks == {k \in 1..i : visits[k].depth = d}
    IN  CHOOSE k \in ks : \A l \in ks : l <= k

-----------------------------------------------------------------------------
(* C2: root identification.                                                *)

\* C2: once the graph is built, a resource of the catalog is in top_level if
\* and only if it has no owner reference or one of its owner references
\* names a uid that is no resource of the catalog; and it is there once.
C2_RootIdentification ==
    Built =>
        \A u \in ResourceUids :
            LET r == Res(uid_to_resource, u)
                root == \/ r.owners = <<>>
                        \/ \E j \in 1..Len(r.owners) : r.owners[j] \notin ResourceUids
            IN  /\ (u \in Range(top_level)) <=> root
                /\ Count(top_level, u) <= 1

\* a run that held a resource without owners (a root), one whose sole owner
\* is present (no root) and one with a present and an absent owner (a root)
C2_Witness ==
    /\ pc = "done"
    /\ \E a, b, c \in ResourceUids :
          /\ Res(uid_to_resource, a).owners = <<>>
          /\ a \in Range(top_level)
          /\ Res(uid_to_resource, b).owners = <<a>>
          /\ b \notin Range(top_level)
          /\ Range(Res(uid_to_resource, c).owners) = {a, U9}
          /\ c \in Range(top_level)

-----------------------------------------------------------------------------
(* C7: the excluded kind.                                                  *)

\* the uids of the Events the data source holds
EventUids == {items[i].uid : i \in {j \in 1..Len(items) : items[j].kind = Event}}

-----------------------------------------------------------------------------
(* C8: termination of the traversal.                                       *)

\* the run is over
Ended == pc \in {"done", "exit", "RecursionError", "KeyError"}

\* how far the run has got: every step of the run moves it on
Progress ==
    idx + Len(visits) + (CASE pc = "collect" -> 0
             [] pc = "render" -> 1
             [] OTHER -> 2)

\* C8 as the code has it: rendering always ends after finitely many lines
\* (every step moves the run on, no visit is deeper than the recursion
\* limit, and until the run has ended a step of it is due); it ends normally
\* exactly when no ownership cycle can be got to from a root; a node that
\* cannot be got to from a root (a cycle of such nodes too) is never
\* visited; and when a cycle can be got to from a root the recursion goes
\* around it until the interpreter's recursion limit is passed and the run
\* is aborted by RecursionError.
C8_Termination ==
    /\ [](/\ pc = "done" => ~CycleReachable
          /\ pc = "RecursionError" => CycleReachable
          /\ \A i \in 1..Len(visits) : visits[i].uid \in ReachableFromTop
          /\ \A i \in 1..Len(visits) : visits[i].depth <= RecursionLimit
          /\ Ended \/ Collecting \/ Collected \/ Printing \/ Printed)
    /\ [][Progress' > Progress]_vars

\* C8 as stated: when a cycle can be got to from a root, the traversal does
\* not terminate (the run never ends).
C8_Original == CycleReachable => ~Ended

\* a run that went around a cycle until RecursionError, while the catalog
\* also held a resource no root leads to
C8_Witness ==
    /\ pc = "RecursionError"
    /\ CycleReachable
    /\ Len(visits) >= RecursionLimit
    /\ ResourceUids \ ReachableFromTop # {}

-----------------------------------------------------------------------------
(* C9: the order of siblings.                                              *)

\* C9: the traversal is pre-order (the first visit is a top-level node, a
\* visit goes at most one level deeper than the one before, the children of
\* a node are visited between the node and its next sibling); siblings are
\* visited in non-decreasing (kind lowercased, name lowercased) order; a
\* node drawn as last has no later sibling and one not drawn as last has
\* one when rendering is over; the line of a node carries the branch glyph
\* of its is_last and, for each ancestor, the indentation of the
\* ancestor's; and when rendering is over the children visited below a node
\* are the children the adjacency index lists for it, the top-level nodes
\* the group nodes.
C9_SiblingOrder ==
    /\ Len(visits) > 0 => visits[1].depth = 1
    /\ \A i \in 1..(Len(visits) - 1) :
          /\ visits[i + 1].depth >= 1
          /\ visits[i + 1].depth <= visits[i].depth + 1
    /\ \A i, j \in 1..Len(visits) :
          NextSibling(i, j) =>
              /\ ~KeyLess(VisitKey(j), VisitKey(i))
              /\ ~visits[i].is_last
    /\ \A i, j \in 1..Len(visits) :
          (i < j /\ visits[i].is_last /\ visits[i].depth = visits[j].depth)
              => \E k \in (i + 1)..(j - 1) : visits[k].depth < visits[i].depth
    /\ ~WITH_EVENT_INFO =>
          /\ Len(out) = Len(visits)
          /\ \A i \in 1..Len(visits) :
                /\ Len(out[i]) > visits[i].depth
                /\ out[i][visits[i].depth] =
                      (IF visits[i].is_last THEN BranchLast ELSE BranchMid)
                /\ \A d \in 1..(visits[i].depth - 1) :
                      out[i][d] = (IF visits[Ancestor(i, d)].is_last
                                   THEN IndentLast ELSE IndentMid)
    /\ pc = "done" =>
          /\ SameBag(TopVisits, top_level_kinds)
          /\ \A i \in 1..Len(visits) :
                /\ SameBag(ChildVisits(i), Children(owner_to_children, visits[i].uid))
                /\ ~visits[i].is_last => \E j \in (i + 1)..Len(visits) : NextSibling(i, j)

\* a finished rendering in which a node had two children that the raw names
\* order the other way (B before a), the first of them with a child of its
\* own
C9_Witness ==
    /\ pc = "done"
    /\ \E i, j \in 1..Len(visits) :
          /\ NextSibling(i, j)
          /\ visits[i].depth = 2
          /\ j = i + 2
          /\ Res(uid_to_resource, visits[i].uid).name = NameA
          /\ Res(uid_to_resource, visits[j].uid).name = NameB
          /\ Res(uid_to_resource, visits[i].uid).kind = Res(uid_to_resource, visits[j].uid).kind

-----------------------------------------------------------------------------
(* C1: every resource is rendered exactly once.                            *)

\* no resource of the catalog is on an ownership cycle
Acyclic == \A u \in Uids(uid_to_resource) : ~OnCycle(u)

\* the uids of the visits, in order
VisitedUids == [i \in 1..Len(visits) |-> visits[i].uid]

\* C1 as stated: when the owner references are acyclic, a finished rendering
\* has visited every resource of the catalog exactly once.
C1_Original ==
    (pc = "done" /\ Acyclic) =>
        \A u \in ResourceUids : Count(VisitedUids, u) = 1

-----------------------------------------------------------------------------
(* C3: root grouping.                                                      *)

\* the kinds of the roots
RootKinds == {Res(uid_to_resource, u).kind : u \in Range(top_level)}

\* the roots of kind k
RootsOfKind(k) == {u \in Range(top_level) : Res(uid_to_resource, u).kind = k}

\* C3 as stated: once the graph is built, top_level_kinds holds one group
\* node for each kind among the roots and nothing else, and the children of
\* the group node of a kind are the roots of that kind, each once.
C3_Original ==
    Built =>
        /\ Len(top_level_kinds) = Cardinality(RootKinds)
        /\ Cardinality(Range(top_level_kinds)) = Cardinality(RootKinds)
        /\ \A k \in RootKinds :
              /\ \E i \in 1..Len(pseudo_nodes) : pseudo_nodes[i].kind = k
              /\ \A i \in 1..Len(pseudo_nodes) :
                    pseudo_nodes[i].kind = k =>
                        LET node == pseudo_nodes[i].uid
                            kids == Children(owner_to_children, node)
                        IN  /\ node \in Range(top_level_kinds)
                            /\ Range(kids) = RootsOfKind(k)
                            /\ Len(kids) = Cardinality(RootsOfKind(k))

-----------------------------------------------------------------------------
(* C4: determinism.                                                        *)

\* C4 as stated: a second run on the same records, in whatever order the
\* data source returns them, prints what the first run printed.
C4_Original == (run = 2 /\ pc = "done") => out = prev_out

-----------------------------------------------------------------------------
(* C5: the image tokens of a fingerprint.                                  *)

\* the image tokens the container entries of a document use
TokensUsed(doc) ==
    UNION { {doc[i].value.containers[j].imageRef
                : j \in 1..Len(doc[i].value.containers)}
            : i \in {k \in 1..Len(doc) : /\ doc[k].key # ImageMapKey
                                         /\ "containers" \in DOMAIN doc[k].value} }

\* the _image_map of a document, the empty map when it has none
ImageMapOf(doc) ==
    LET ks == {i \in 1..Len(doc) : doc[i].key = ImageMapKey}
    IN  IF ks = {} THEN <<>> ELSE doc[CHOOSE i \in ks : TRUE].value

\* C5 as stated: within one gather_fingerprint call every image string has
\* one token, the tokens are image_ref_1 .. image_ref_n in first-seen
\* order, every container entry carries a minted token, and the _image_map
\* of a written document maps every token its entries use back to its
\* image, holds no token that no container entry of the document uses, and
\* is left out when no image was seen.
C5_Original ==
    /\ image_ref_count = Len(all_images)
    /\ \A i \in 1..Len(all_images) : all_images[i].token = ImageRef(i)
    /\ \A i, j \in 1..Len(all_images) :
          all_images[i].image = all_images[j].image => i = j
    /\ TokensUsed(fingerprint) \subseteq {all_images[i].token : i \in 1..Len(all_images)}
    /\ LET map == ImageMapOf(document)
       IN  /\ \A t \in TokensUsed(document) :
                 \E i \in 1..Len(map) :
                     /\ map[i].token = t
                     /\ \E j \in 1..Len(all_images) :
                           all_images[j] = [image |-> map[i].image, token |-> t]
           /\ \A i \in 1..Len(map) : map[i].token \in TokensUsed(document)
           /\ (\E i \in 1..Len(document) : document[i].key = ImageMapKey)
                 <=> TokensUsed(document) # {}

-----------------------------------------------------------------------------
(* C6: a record without uid or kind.                                       *)

\* the record lacks no field the loop reads
WellFormed(item) == item.uid # Missing /\ item.kind # Missing

\* C6 as stated: a record without uid or kind is dropped alone; the run is
\* not aborted, and every other record of the data source is in the catalog
\* when ingestion is over.
C6_Original ==
    /\ pc # "KeyError"
    /\ Built =>
          \A i \in 1..Len(items) :
              (WellFormed(items[i]) /\ ~Excluded(items[i].kind))
                  => items[i].uid \in Uids(uid_to_resource)

-----------------------------------------------------------------------------
(* C10: what a fingerprint holds.                                          *)

\* C10 as stated: every key of a written document other than _image_map is
\* the kind/name of a record of the data source.
C10_Original ==
    \A i \in 1..Len(document) :
        document[i].key # ImageMapKey =>
            \E j \in 1..Len(items) :
                document[i].key = items[j].kind \o <<"/">> \o items[j].name

====
